---- MODULE Spec2Model ----
(***************************************************************************)
(* Linked-selection dashboard of app.py: one working sample, two field     *)
(* selectors (Map & Bar colour, Pie colour), one interval selection        *)
(* (brush) and two point selections (sel_mapbar, sel_pie) that filter the  *)
(* four views (Map, Bar, Pie, Heatmap).                                    *)
(*                                                                         *)
(* Scalars are scaled: opacities are hundredths (0.50 -> 50), coordinates  *)
(* are small grid indices, strings of the time column are sequences of     *)
(* one-character strings.                                                  *)
(***************************************************************************)
EXTENDS Integers, Sequences, FiniteSets, TLC

VARIABLES df_plot, map_color_field, pie_color_field, point_opacity,
          brush, sel_mapbar, sel_pie

vars == <<df_plot, map_color_field, pie_color_field, point_opacity,
          brush, sel_mapbar, sel_pie>>

----------------------------------------------------------------------------
(* Bounds of the model *)

\* longest working sample
MaxRows == 3

----------------------------------------------------------------------------
(* Values *)

\* pandas NA / JavaScript null
NULL == "<NA>"

\* JavaScript NaN, as toNumber yields for a string that is no number
NaN == -1

\* the value an ordinal scale with an explicit domain gives outside the domain
Undefined == "undefined"

Range(s) == {s[i] : i \in DOMAIN s}

IndexOf(s, v) == CHOOSE i \in DOMAIN s : s[i] = v

Min(a, b) == IF a < b THEN a ELSE b

\* the columns of the data frame
all_cols == <<"accident_severity", "day_of_week", "weather_conditions",
              "time", "latitude", "longitude">>

\* the columns the two colour selectors are moved to in the model
FieldChoices == {"accident_severity", "day_of_week", "weather_conditions"}

\* the positions of the opacity slider the model visits (0.01, 0.50)
OpacityChoices == {1, 50}

\* a value of the time column: a string (a sequence of characters) or a number
TimeStr(chars) == [kind |-> "str", str |-> chars, num |-> 0]

TimeNum(n) == [kind |-> "num", str |-> <<>>, num |-> n]

Row(sev, dow, wea, t, lon, lat) ==
    [accident_severity |-> sev, day_of_week |-> dow, weather_conditions |-> wea,
     time |-> t, longitude |-> lon, latitude |-> lat]

\* rows of a data set whose time column holds strings
StrPool ==
    { Row("slight",  "Monday",  "Fine", TimeStr(<<"0", "8", ":", "1", "5">>), 0, 0),
      Row("fatal",   "Sunday",  "Rain", TimeStr(<<"2", "3", ":", "0", "0">>), 1, 0),
      Row("serious", "Holiday", "Fine", TimeStr(<<"0", "8", ":", "4", "5">>), 1, 0),
      Row("Fetal",   NULL,      NULL,   TimeStr(<<"8", ":", "1", "5">>),      0, 0) }

\* rows of a data set whose time column is numeric (the hour)
NumPool ==
    { Row("slight", "Monday", "Fine", TimeNum(8), 0, 0),
      Row("fatal",  "Sunday", "Rain", TimeNum(23), 1, 0) }

SeqsUpTo(S, n) == UNION {[1..k -> S] : k \in 1..n}

\* the working samples of the model
Samples == SeqsUpTo(StrPool, MaxRows) \cup SeqsUpTo(NumPool, MaxRows)

\* the rows of the data set a sample is drawn from
PoolOf(df) == IF df[1] \in NumPool THEN NumPool ELSE StrPool

\* the longitudes and the latitudes of the model: its points lie on one parallel
Lons == {0, 1}

Lats == {0}

\* "no region": the empty interval selection
NoBrush == [set |-> FALSE, lon |-> <<0, 0>>, lat |-> <<0, 0>>]

\* the closed axis-aligned regions a drag can produce
Regions ==
    { r \in [set : {TRUE}, lon : Lons \X Lons, lat : Lats \X Lats] :
        r.lon[1] <= r.lon[2] /\ r.lat[1] <= r.lat[2] }

----------------------------------------------------------------------------
(* Category ordering and palette *)

\* series.dropna()
DropNa(series) == SelectSeq(series, LAMBDA v : v # NULL)

\* series.unique(): the distinct values in first-seen order
RECURSIVE Unique(_)
Unique(series) ==
    IF series = <<>> THEN <<>>
    ELSE LET front == Unique(SubSeq(series, 1, Len(series) - 1))
             last  == series[Len(series)]
         IN  IF last \in Range(front) THEN front ELSE Append(front, last)

\* df_plot[col]
Column(df, col) == [i \in DOMAIN df |-> df[i][col]]

severity_order == <<"slight", "serious", "fatal">>

dow_order == <<"Monday", "Tuesday", "Wednesday", "Thursday", "Friday",
               "Saturday", "Sunday">>

_ordered_categories(field, series) ==
    LET cats == Unique(DropNa(series))
    IN  IF field = "accident_severity"
        THEN SelectSeq(severity_order, LAMBDA c : c \in Range(cats))
        ELSE IF field = "day_of_week"
        THEN LET ordered == SelectSeq(dow_order, LAMBDA d : d \in Range(cats))
                 extras  == SelectSeq(cats, LAMBDA d : d \notin Range(ordered))
             IN  ordered \o extras
        ELSE cats

severity_range == <<"#84c3ff", "#627cf3", "#E44848">>

two_range == <<"#e63946", "#0694d6">>

\* the renderer's default categorical scheme, used when a scale names no range
default_range == <<"#4c78a8", "#f58518", "#e45756", "#72b7b2", "#54a24b",
                   "#eeca3b", "#b279a2", "#ff9da6", "#9d755d", "#bab0ac">>

\* alt.Scale(domain=..., range=...)
Scale(domain, range) == [domain |-> domain, range |-> range]

_color_scale_for(field, categories) ==
    IF field = "accident_severity" /\ categories # <<>>
    THEN Scale(categories, severity_range)
    ELSE IF Len(categories) = 2
    THEN Scale(categories, two_range)
    ELSE Scale(categories, default_range)

\* an ordinal scale: the i-th domain entry takes the i-th range entry, the
\* range repeating when the domain is longer
ColorOf(scale, v) ==
    IF v \in Range(scale.domain)
    THEN scale.range[((IndexOf(scale.domain, v) - 1) % Len(scale.range)) + 1]
    ELSE Undefined

----------------------------------------------------------------------------
(* Selections *)

\* alt.selection_interval(name="brush"): a new interval selection is empty
selection_interval == NoBrush

\* alt.selection_point(fields=[...], on="click", clear="dblclick"): a new
\* point selection holds no value
selection_point == {}

\* a value held by a point selection on `field`
Tuple(field, v) == [field |-> field, value |-> v]

\* the predicate of an interval selection; an empty selection passes every row
InBrush(b, r) ==
    \/ ~b.set
    \/ /\ b.lon[1] <= r.longitude /\ r.longitude <= b.lon[2]
       /\ b.lat[1] <= r.latitude /\ r.latitude <= b.lat[2]

\* the predicate of a point selection; an empty selection passes every row
Passes(sel, r) == sel = {} \/ \E t \in sel : r[t.field] = t.value

\* on="click" without the shift key: the selection becomes the clicked value
Click(sel, t) == {t}

\* on="click" with the shift key (toggle is left at its default): the clicked
\* value is inserted into the selection, or removed when it is already there
ShiftClick(sel, t) == IF t \in sel THEN sel \ {t} ELSE sel \cup {t}

----------------------------------------------------------------------------
(* Views *)

DimmedOpacity == 5

\* fault of points_filter: the brush filters the Map as it filters the others
points_filter_brushed(b, sm, sp, r) ==
    InBrush(b, r) /\ Passes(sm, r) /\ Passes(sp, r)

\* points: .transform_filter(sel_mapbar).transform_filter(sel_pie)
points_filter(b, sm, sp, r) == Passes(sm, r) /\ Passes(sp, r)

\* the rows the Map draws
points(df, b, sm, sp) == SelectSeq(df, LAMBDA r : points_filter(b, sm, sp, r))

\* opacity=alt.condition(brush, alt.value(point_opacity), alt.value(0.05))
points_opacity(b, o, r) == IF InBrush(b, r) THEN o ELSE DimmedOpacity

\* fault of bar_filter: the Bar is filtered by its own selection too
bar_filter_self(b, sm, sp, r) == InBrush(b, r) /\ Passes(sm, r) /\ Passes(sp, r)

\* bar: .transform_filter(brush).transform_filter(sel_pie)
bar_filter(b, sm, sp, r) == InBrush(b, r) /\ Passes(sp, r)

\* the rows the Bar counts
bar_rows(df, b, sm, sp) == SelectSeq(df, LAMBDA r : bar_filter(b, sm, sp, r))

\* ASCII order of the values of the model, the order of a domain that the
\* renderer derives from the data when a scale names none
Collation == <<"Fetal", "Fine", "Holiday", "Monday", "Rain", "Sunday",
               "fatal", "serious", "slight">>

\* the domain the renderer derives from the rows of a view
DataDomain(rows, f) ==
    SelectSeq(Collation, LAMBDA v : v \in Range(Column(rows, f)))

bar_categories(df, f) == _ordered_categories(f, Column(df, f))

bar_color_scale(df, f) == _color_scale_for(f, bar_categories(df, f))

\* fault of bar_y_domain: no domain given, so the renderer derives it from
\* the filtered rows
bar_y_domain_from_data(df, f, b, sm, sp) == DataDomain(bar_rows(df, b, sm, sp), f)

\* y: scale=alt.Scale(domain=bar_categories): the bands the Bar view shows
bar_y_domain(df, f, b, sm, sp) == bar_categories(df, f)

\* x = count() grouped by the y field: the length of the bar of category c
bar(df, f, b, sm, sp, c) ==
    LET rows == bar_rows(df, b, sm, sp)
    IN  Cardinality({i \in DOMAIN rows : rows[i][f] = c})

\* pie: .transform_filter(brush).transform_filter(sel_mapbar)
pie_filter(b, sm, sp, r) == InBrush(b, r) /\ Passes(sm, r)

pie_rows(df, b, sm, sp) == SelectSeq(df, LAMBDA r : pie_filter(b, sm, sp, r))

pie_categories(df, f) == _ordered_categories(f, Column(df, f))

pie_color_scale(df, f) == _color_scale_for(f, pie_categories(df, f))

\* .transform_aggregate(count="count()", groupby=[pie_color_field]): one
\* record per distinct value of the field, a missing value included
transform_aggregate(rows, f) ==
    LET keys == Unique(Column(rows, f))
    IN  [k \in DOMAIN keys |->
            [key   |-> keys[k],
             count |-> Cardinality({i \in DOMAIN rows : rows[i][f] = keys[k]})]]

RECURSIVE SumCount(_)
SumCount(groups) ==
    IF groups = <<>> THEN 0
    ELSE groups[1].count + SumCount(Tail(groups))

\* fault of transform_joinaggregate: the sum is taken within each group
transform_joinaggregate_grouped(groups) ==
    [k \in DOMAIN groups |->
        [key |-> groups[k].key, count |-> groups[k].count,
         total |-> groups[k].count]]

\* .transform_joinaggregate(total="sum(count)")
transform_joinaggregate(groups) ==
    [k \in DOMAIN groups |->
        [key |-> groups[k].key, count |-> groups[k].count,
         total |-> SumCount(groups)]]

\* .transform_calculate(percent="datum.count / datum.total"), the quotient
\* kept as the pair <<numerator, denominator>>
transform_calculate(groups) ==
    [k \in DOMAIN groups |->
        [key |-> groups[k].key, count |-> groups[k].count,
         total |-> groups[k].total,
         percent |-> <<groups[k].count, groups[k].total>>]]

\* the slices of the Pie
pie(df, f, b, sm, sp) ==
    transform_calculate(
        transform_joinaggregate(
            transform_aggregate(pie_rows(df, b, sm, sp), f)))

----------------------------------------------------------------------------
(* Heatmap *)

_time_candidates == <<"hour", "accident_hour", "time_of_day", "time",
                      "accident_time">>

\* next((c for c in _time_candidates if c in all_cols), None)
TIME_COL ==
    LET found == SelectSeq(_time_candidates, LAMBDA c : c \in Range(all_cols))
    IN  IF found = <<>> THEN NULL ELSE found[1]

have_day_of_week == "day_of_week" \in Range(all_cols)

\* pd.api.types.is_numeric_dtype(df_plot[TIME_COL])
is_time_numeric(df) == \A i \in DOMAIN df : df[i][TIME_COL].kind = "num"

Digit == [c \in {"0", "1", "2", "3", "4", "5", "6", "7", "8", "9"} |->
            CASE c = "0" -> 0 [] c = "1" -> 1 [] c = "2" -> 2 [] c = "3" -> 3
              [] c = "4" -> 4 [] c = "5" -> 5 [] c = "6" -> 6 [] c = "7" -> 7
              [] c = "8" -> 8 [] c = "9" -> 9]

\* slice(s, from, to) of the expression language: characters from..to-1
slice(str, from, to) == SubSeq(str, from + 1, Min(to, Len(str)))

\* toNumber's result for the empty string (null), which is no number
NoNumber == -2

RECURSIVE Decimal(_)
Decimal(str) ==
    IF str = <<>> THEN 0
    ELSE 10 * Decimal(SubSeq(str, 1, Len(str) - 1)) + Digit[str[Len(str)]]

\* toNumber(s): the decimal value of a string of digits, NaN for another string
toNumber(str) ==
    IF str = <<>> THEN NoNumber
    ELSE IF \A i \in DOMAIN str : str[i] \in DOMAIN Digit THEN Decimal(str)
    ELSE NaN

\* fault of calc_hour: only the first character of the string is taken
calc_hour_one_char(numeric, r) ==
    IF numeric THEN r[TIME_COL].num
    ELSE toNumber(slice(r[TIME_COL].str, 0, 1))

\* calc_hour: datum[TIME_COL] when the column is numeric, otherwise
\* toNumber(slice(datum[TIME_COL], 0, 2))
calc_hour(numeric, r) ==
    IF numeric THEN r[TIME_COL].num
    ELSE toNumber(slice(r[TIME_COL].str, 0, 2))

\* temporal_heatmap: .transform_filter(brush).transform_filter(sel_mapbar)
\* .transform_filter(sel_pie)
heatmap_filter(b, sm, sp, r) == InBrush(b, r) /\ Passes(sm, r) /\ Passes(sp, r)

heatmap_rows(df, b, sm, sp) ==
    SelectSeq(df, LAMBDA r : heatmap_filter(b, sm, sp, r))

dow_domain(df) == _ordered_categories("day_of_week", Column(df, "day_of_week"))

\* .transform_calculate(hour=calc_hour), then count() grouped by the two
\* axes: the cells of the heatmap, each with its count
temporal_heatmap(df, b, sm, sp) ==
    LET rows  == heatmap_rows(df, b, sm, sp)
        num   == is_time_numeric(df)
        datum == [i \in DOMAIN rows |->
                    [day_of_week |-> rows[i].day_of_week,
                     hour |-> calc_hour(num, rows[i])]]
        cells == Unique(datum)
    IN  IF TIME_COL # NULL /\ have_day_of_week
        THEN [k \in DOMAIN cells |->
                [day_of_week |-> cells[k].day_of_week, hour |-> cells[k].hour,
                 count |-> Cardinality({i \in DOMAIN datum : datum[i] = cells[k]})]]
        ELSE <<>>

\* the value the heatmap with these cells shows at (d, h): the count of the
\* cell, 0 without one
heatmap_cell(cells, d, h) ==
    LET at == {k \in DOMAIN cells :
                 cells[k].day_of_week = d /\ cells[k].hour = h}
    IN  IF at = {} THEN 0 ELSE cells[CHOOSE k \in at : TRUE].count

----------------------------------------------------------------------------
(* Layout and colour-scale resolution *)

\* "Q" for a numeric column, "N" otherwise
_vega_type(df, col) ==
    IF col \in {"latitude", "longitude"} THEN "Q"
    ELSE IF col = "time" /\ is_time_numeric(df) THEN "Q"
    ELSE "N"

\* fault of left_panel_color_resolve: the colour scales of Map and Bar kept apart
independent_color_resolve == "independent"

\* left_panel = alt.vconcat(chart, bar): no resolve_scale is applied to it,
\* and a concatenation shares its colour scales unless told otherwise.  The
\* resolve_scale(color="independent") of `combined` separates the left panel
\* from the right one, so the Pie keeps pie_color_scale.
left_panel_color_resolve == "shared"

\* the colour scale of the Map points and their legend.  Their encoding names
\* no scale; sharing the Bar's scale, the Bar's explicit domain and range win.
points_color_scale(df, f, b, sm, sp) ==
    IF left_panel_color_resolve = "shared" /\ _vega_type(df, f) = "N"
    THEN bar_color_scale(df, f)
    ELSE Scale(DataDomain(points(df, b, sm, sp), f), default_range)

----------------------------------------------------------------------------
(* The session *)

_default_map_color ==
    IF "accident_severity" \in Range(all_cols) THEN "accident_severity"
    ELSE IF "day_of_week" \in Range(all_cols) THEN "day_of_week"
    ELSE all_cols[1]

_default_pie_color ==
    IF "day_of_week" \in Range(all_cols) THEN "day_of_week"
    ELSE IF "weather_conditions" \in Range(all_cols) THEN "weather_conditions"
    ELSE all_cols[1]

default_point_opacity == 50

Init ==
    /\ df_plot \in Samples
    /\ map_color_field = _default_map_color
    /\ pie_color_field = _default_pie_color
    /\ point_opacity = default_point_opacity
    /\ brush = selection_interval
    /\ sel_mapbar = selection_point
    /\ sel_pie = selection_point

\* A widget changed: the script runs again from the top with the widgets'
\* values and builds the charts anew, the three selections with them.
Rerun(df, mf, pf, o) ==
    /\ df_plot' = df
    /\ map_color_field' = mf
    /\ pie_color_field' = pf
    /\ point_opacity' = o
    /\ brush' = selection_interval
    /\ sel_mapbar' = selection_point
    /\ sel_pie' = selection_point

\* The sample-size slider moves: df.sample(n_points, random_state=42) is the
\* first n_points rows of one seeded shuffle of the data set, so a smaller
\* n_points drops the sample's last row and a larger one appends a row of the
\* data set.  At least one step of the slider stays in the sample.
SampleSlider ==
    \E df \in {SubSeq(df_plot, 1, Len(df_plot) - 1)}
               \cup {Append(df_plot, r) : r \in PoolOf(df_plot)} :
        /\ Len(df) \in 1..MaxRows
        /\ Rerun(df, map_color_field, pie_color_field, point_opacity)

\* the "Point opacity" slider moves
OpacitySlider ==
    \E o \in OpacityChoices \ {point_opacity} :
        Rerun(df_plot, map_color_field, pie_color_field, o)

\* fault of MapColorSelect: the pick of the old field survives the switch
MapColorSelectKeepsPick ==
    \E f \in FieldChoices \ {map_color_field} :
        /\ map_color_field' = f
        /\ brush' = selection_interval
        /\ sel_pie' = selection_point
        /\ UNCHANGED <<df_plot, pie_color_field, point_opacity, sel_mapbar>>

\* the "Map & Bar: Color" selector changes to another column
MapColorSelect ==
    \E f \in FieldChoices \ {map_color_field} :
        Rerun(df_plot, f, pie_color_field, point_opacity)

\* the "Pie: Color" selector changes to another column
PieColorSelect ==
    \E f \in FieldChoices \ {pie_color_field} :
        Rerun(df_plot, map_color_field, f, point_opacity)

\* a drag on the Map sets the brush
BrushDrag ==
    /\ \E region \in Regions \ {brush} : brush' = region
    /\ UNCHANGED <<df_plot, map_color_field, pie_color_field, point_opacity,
                   sel_mapbar, sel_pie>>

\* a double click on the Map clears the brush
BrushClear ==
    /\ brush.set
    /\ brush' = selection_interval
    /\ UNCHANGED <<df_plot, map_color_field, pie_color_field, point_opacity,
                   sel_mapbar, sel_pie>>

\* the categories whose bar is on screen: those with a row after the filter
BarMarks ==
    Range(Column(bar_rows(df_plot, brush, sel_mapbar, sel_pie), map_color_field))
        \ {NULL}

\* the categories whose slice is on screen
PieMarks ==
    Range(Column(pie_rows(df_plot, brush, sel_mapbar, sel_pie), pie_color_field))
        \ {NULL}

BarClick ==
    /\ \E v \in BarMarks :
          /\ sel_mapbar # {Tuple(map_color_field, v)}
          /\ sel_mapbar' = Click(sel_mapbar, Tuple(map_color_field, v))
    /\ UNCHANGED <<df_plot, map_color_field, pie_color_field, point_opacity,
                   brush, sel_pie>>

BarShiftClick ==
    /\ \E v \in BarMarks :
          /\ sel_mapbar' = ShiftClick(sel_mapbar, Tuple(map_color_field, v))
    /\ UNCHANGED <<df_plot, map_color_field, pie_color_field, point_opacity,
                   brush, sel_pie>>

\* clear="dblclick"
BarDblClick ==
    /\ sel_mapbar # {}
    /\ sel_mapbar' = {}
    /\ UNCHANGED <<df_plot, map_color_field, pie_color_field, point_opacity,
                   brush, sel_pie>>

PieClick ==
    /\ \E v \in PieMarks :
          /\ sel_pie # {Tuple(pie_color_field, v)}
          /\ sel_pie' = Click(sel_pie, Tuple(pie_color_field, v))
    /\ UNCHANGED <<df_plot, map_color_field, pie_color_field, point_opacity,
                   brush, sel_mapbar>>

PieShiftClick ==
    /\ \E v \in PieMarks :
          /\ sel_pie' = ShiftClick(sel_pie, Tuple(pie_color_field, v))
    /\ UNCHANGED <<df_plot, map_color_field, pie_color_field, point_opacity,
                   brush, sel_mapbar>>

\* clear="dblclick"
PieDblClick ==
    /\ sel_pie # {}
    /\ sel_pie' = {}
    /\ UNCHANGED <<df_plot, map_color_field, pie_color_field, point_opacity,
                   brush, sel_mapbar>>

\* the linked selections at the default point opacity
Next ==
    \/ SampleSlider
    \/ MapColorSelect
    \/ PieColorSelect
    \/ BrushDrag
    \/ BrushClear
    \/ BarClick
    \/ BarShiftClick
    \/ BarDblClick
    \/ PieClick
    \/ PieShiftClick
    \/ PieDblClick

Spec == Init /\ [][Next]_vars

\* the Map under the opacity slider, the two colour fields at their defaults
NextOpacity ==
    \/ SampleSlider
    \/ OpacitySlider
    \/ BrushDrag
    \/ BrushClear
    \/ BarClick
    \/ BarShiftClick
    \/ BarDblClick
    \/ PieClick
    \/ PieShiftClick
    \/ PieDblClick

SpecOpacity == Init /\ [][NextOpacity]_vars

----------------------------------------------------------------------------
(* Properties *)

\* the rows of the working sample, by index
Rows == DOMAIN df_plot

\* a row passes the pick of a role bound to field f: no value is picked, or
\* the row's value of f is a picked one
PassesPick(sel, f, i) == sel = {} \/ Tuple(f, df_plot[i][f]) \in sel

\* a row passes the brush: no region is set, or the row lies in the region
PassesBrush(i) ==
    brush.set =>
        /\ df_plot[i].longitude \in brush.lon[1]..brush.lon[2]
        /\ df_plot[i].latitude \in brush.lat[1]..brush.lat[2]

\* C1: the count of every Bar category is the number of rows that pass the
\* brush and the pie pick, a number the mapBar pick does not enter; the Pie's
\* slices and their counts are those of the rows that pass the brush and the
\* mapBar pick, which the pie pick does not enter.  An unset selection passes
\* every row.
C1_SelfExclusion ==
    LET barRows == {i \in Rows : PassesBrush(i)
                                 /\ PassesPick(sel_pie, pie_color_field, i)}
        pieRows == {i \in Rows : PassesBrush(i)
                                 /\ PassesPick(sel_mapbar, map_color_field, i)}
        slices  == pie(df_plot, pie_color_field, brush, sel_mapbar, sel_pie)
    IN  /\ \A c \in Range(Column(df_plot, map_color_field)) :
            bar(df_plot, map_color_field, brush, sel_mapbar, sel_pie, c)
                = Cardinality({i \in barRows : df_plot[i][map_color_field] = c})
        /\ {slices[k].key : k \in DOMAIN slices}
                = {df_plot[i][pie_color_field] : i \in pieRows}
        /\ \A k \in DOMAIN slices :
                slices[k].count
                    = Cardinality({i \in pieRows :
                        df_plot[i][pie_color_field] = slices[k].key})

\* a brush, a mapBar pick and a pie pick are set, and the Bar counts a row
\* that its own pick does not hold
C1_Witness ==
    /\ brush.set /\ sel_mapbar # {} /\ sel_pie # {}
    /\ \E i \in Rows :
          /\ bar_filter(brush, sel_mapbar, sel_pie, df_plot[i])
          /\ ~PassesPick(sel_mapbar, map_color_field, i)

\* C2: the Map draws exactly the rows that pass the two picks, whatever the
\* brush is; a drawn point has the chosen opacity inside the region (or with
\* no region) and the dimmed opacity 0.05 outside it.
C2_MapNeverBrushFiltered ==
    LET drawn == {i \in Rows : PassesPick(sel_mapbar, map_color_field, i)
                               /\ PassesPick(sel_pie, pie_color_field, i)}
    IN  /\ \A b \in Regions \cup {NoBrush} :
            points(df_plot, b, sel_mapbar, sel_pie)
                = SelectSeq(df_plot, LAMBDA r : \E i \in drawn : df_plot[i] = r)
        /\ \A i \in drawn :
            points_opacity(brush, point_opacity, df_plot[i])
                = IF PassesBrush(i) THEN point_opacity ELSE 5

\* with a moved opacity slider and a pick set, the Map draws a point inside
\* the brush and a point outside it
C2_Witness ==
    /\ brush.set /\ sel_mapbar # {} /\ point_opacity # default_point_opacity
    /\ \E i, j \in Rows :
          /\ points_filter(brush, sel_mapbar, sel_pie, df_plot[i])
          /\ points_filter(brush, sel_mapbar, sel_pie, df_plot[j])
          /\ PassesBrush(i) /\ ~PassesBrush(j)
    /\ \E i \in Rows : ~points_filter(brush, sel_mapbar, sel_pie, df_plot[i])

\* every value a pick holds is a value of the field its role is bound to
PicksOfBoundField ==
    /\ \A t \in sel_mapbar : t.field = map_color_field
    /\ \A t \in sel_pie : t.field = pie_color_field

\* a step that moves a field selector leaves that role's pick unset
FieldSwitchClears ==
    /\ map_color_field' # map_color_field => sel_mapbar' = {}
    /\ pie_color_field' # pie_color_field => sel_pie' = {}

\* C3: whenever the mapBar (resp. pie) field selector changes to another
\* column the mapBar (resp. pie) pick is unset in the next state, and no
\* reachable state holds a pick on a field other than the bound one.
C3_FieldSwitchClearsPick == []PicksOfBoundField /\ [][FieldSwitchClears]_vars

\* both selectors were moved off their defaults and each role holds a pick,
\* which the next switch of its field has to clear
C3_Witness ==
    /\ map_color_field # _default_map_color /\ sel_mapbar # {}
    /\ pie_color_field # _default_pie_color /\ sel_pie # {}

\* the domain the claim C4 describes: the canonical order restricted to the
\* values present, then the other present values in first-seen order
CanonicalThenLeftovers(canonical, series) ==
    LET present == Unique(SelectSeq(series, LAMBDA v : v # NULL))
    IN  SelectSeq(canonical, LAMBDA v : v \in Range(present))
            \o SelectSeq(present, LAMBDA v : v \notin Range(canonical))

\* C4: for accident_severity and day_of_week the resolved domain is the
\* canonical order restricted to the values present, followed by the present
\* non-canonical values in first-seen order; no present value is missing.
C4_CanonicalDomain ==
    /\ _ordered_categories("accident_severity", Column(df_plot, "accident_severity"))
          = CanonicalThenLeftovers(severity_order, Column(df_plot, "accident_severity"))
    /\ _ordered_categories("day_of_week", Column(df_plot, "day_of_week"))
          = CanonicalThenLeftovers(dow_order, Column(df_plot, "day_of_week"))

\* the colour a view shows for value v under its colour scale
MapLegendColor(v) ==
    ColorOf(points_color_scale(df_plot, map_color_field, brush, sel_mapbar, sel_pie), v)

BarColor(v) == ColorOf(bar_color_scale(df_plot, map_color_field), v)

PieColor(v) == ColorOf(pie_color_scale(df_plot, pie_color_field), v)

SeverityBoundToBoth ==
    /\ map_color_field = "accident_severity"
    /\ pie_color_field = "accident_severity"

\* C5: with the severity field bound to both roles, "fatal" has one colour
\* on the Map legend, on the Bar and on the Pie.
C5_ColorConsistency ==
    SeverityBoundToBoth =>
        /\ MapLegendColor("fatal") = BarColor("fatal")
        /\ BarColor("fatal") = PieColor("fatal")

\* severity is bound to both roles, the sample holds "fatal" rows, picks and
\* a brush are set
C5_Witness ==
    /\ SeverityBoundToBoth
    /\ "fatal" \in Range(Column(df_plot, "accident_severity"))
    /\ BarColor("fatal") # Undefined
    /\ sel_mapbar # {} /\ sel_pie # {} /\ brush.set

\* the bands of the Bar view in the current state
BarDomain == bar_y_domain(df_plot, map_color_field, brush, sel_mapbar, sel_pie)

\* C6: in every selection state the Bar's domain and order are those of the
\* ordered categories of the unfiltered working sample under the mapBar
\* field, a function of the sample and the field alone: no brush or pick
\* reorders the bars or removes a bar whose filtered count is zero.
C6_BarStableIdentity ==
    BarDomain = _ordered_categories(map_color_field, Column(df_plot, map_color_field))

\* under a brush and a pie pick, a category of the domain has no row left
C6_Witness ==
    /\ brush.set /\ sel_pie # {}
    /\ Len(BarDomain) >= 2
    /\ \E k \in DOMAIN BarDomain :
          bar(df_plot, map_color_field, brush, sel_mapbar, sel_pie, BarDomain[k]) = 0
    /\ \E k \in DOMAIN BarDomain :
          bar(df_plot, map_color_field, brush, sel_mapbar, sel_pie, BarDomain[k]) > 0

\* the slices of the Pie in the current state
PieSlices == pie(df_plot, pie_color_field, brush, sel_mapbar, sel_pie)

\* C7: when the Pie's filtered subset (brush and mapBar pick) is not empty,
\* every slice's percentage is its count over the size of that subset, and
\* the counts of the slices add up to it, so the percentages sum to 100%.
C7_PiePercentages ==
    LET total  == Cardinality({i \in Rows :
                    PassesBrush(i) /\ PassesPick(sel_mapbar, map_color_field, i)})
        slices == PieSlices
    IN  total > 0 =>
            /\ SumCount(slices) = total
            /\ \A k \in DOMAIN slices : slices[k].percent = <<slices[k].count, total>>

\* under a brush and a mapBar pick, the Pie has a slice of two rows and a
\* slice of one row: two thirds and one third
C7_Witness ==
    /\ brush.set /\ sel_mapbar # {}
    /\ \E k, l \in DOMAIN PieSlices :
          /\ PieSlices[k].percent = <<2, 3>>
          /\ PieSlices[l].percent = <<1, 3>>

\* the hours the heatmap is asked about: the hours of the model's rows (8, 23)
\* and those their strings give when cut short (0, 2)
HourChoices == {0, 2, 8, 23}

\* the derived hour the claim C8 describes: the column's value when it is
\* numeric, otherwise the number written by the first two characters
DerivedHour(t) ==
    IF t.kind = "num" THEN t.num
    ELSE IF Len(t.str) >= 2 /\ t.str[1] \in DOMAIN Digit /\ t.str[2] \in DOMAIN Digit
    THEN 10 * Digit[t.str[1]] + Digit[t.str[2]]
    ELSE NaN

\* C8: the heatmap cell (d, h) is the number of rows that pass the brush, the
\* mapBar pick and the pie pick and have day_of_week d and derived hour h.
C8_HeatmapCell ==
    LET cells  == temporal_heatmap(df_plot, brush, sel_mapbar, sel_pie)
        passed == {i \in Rows :
                     /\ PassesBrush(i)
                     /\ PassesPick(sel_mapbar, map_color_field, i)
                     /\ PassesPick(sel_pie, pie_color_field, i)}
    IN  \A d \in Range(dow_domain(df_plot)), h \in HourChoices :
            heatmap_cell(cells, d, h)
                = Cardinality({i \in passed :
                    /\ df_plot[i].day_of_week = d
                    /\ DerivedHour(df_plot[i].time) = h})

\* with string times, under a brush and two picks that leave a row out, the
\* cell (Monday, 8) counts a row whose time is "08:15"
C8_Witness ==
    /\ ~is_time_numeric(df_plot)
    /\ brush.set /\ sel_mapbar # {} /\ sel_pie # {}
    /\ heatmap_cell(temporal_heatmap(df_plot, brush, sel_mapbar, sel_pie),
                    "Monday", 8) >= 1
    /\ Len(heatmap_rows(df_plot, brush, sel_mapbar, sel_pie)) < Len(df_plot)

\* C9: each pick role holds at most one value.
C9_SingleSelect == Cardinality(sel_mapbar) <= 1 /\ Cardinality(sel_pie) <= 1

\* the colour the claim C10 gives each severity value
SeverityColor(v) ==
    CASE v = "slight" -> "#84c3ff"
      [] v = "serious" -> "#627cf3"
      [] v = "fatal" -> "#E44848"

\* C10: the severity scale over the resolved domain gives slight, serious and
\* fatal each its own fixed colour, whichever of them the sample holds.
C10_FixedSeverityColors ==
    LET domain == _ordered_categories("accident_severity",
                                      Column(df_plot, "accident_severity"))
        scale  == _color_scale_for("accident_severity", domain)
    IN  \A v \in Range(severity_order) \cap Range(Column(df_plot, "accident_severity")) :
            ColorOf(scale, v) = SeverityColor(v)

====
